---------------------------- MODULE Spec2Model ----------------------------
(*************************************************************************)
(* BarcodeSeqKit: barcode matching, read classification, extraction      *)
(* statistics and the two-pass BAM pipeline (process_bam_file).          *)
(*                                                                       *)
(* A nucleotide string is a TLA+ sequence of one-character strings:      *)
(* "ACG" is <<"A","C","G">>. An Optional value is a sequence of length   *)
(* at most one: None is <<>> and a present value v is <<v>>.             *)
(*************************************************************************)
EXTENDS Integers, Sequences, FiniteSets, TLC

VARIABLES
    \* ---- a call of a pure function of sequence_utils.py ----
    arg_sequence,         \* the `sequence` argument
    arg_barcodes,         \* the `barcodes` argument (list of BarcodeConfig)
    arg_max_mismatches,   \* the `max_mismatches` argument
    arg_seq2,             \* the `seq2` argument (`sequence` holds seq1)
    arg_read,             \* the `read` argument, <<>> when there is none
    ret,                  \* <<>> before the call, then <<returned value>>
    \* ---- an ExtractionStatistics object ----
    stats,                \* its fields; the three dicts in insertion order
    calls,                \* number of update_barcode_match calls made on it
    exported,             \* <<>>, or <<the dict last written by save_json>>
    \* ---- one run of process_bam_file(config, bam_file) ----
    config,               \* the extractor configuration
    bam,                  \* the records of the BAM file, in file order
    pc,                   \* where the run is: "init", "pass1", "pass2",
                          \* "save", "done" or "failed" ("idle": no run)
    pos,                  \* records consumed so far in the current pass
    categories,           \* the list `categories`
    output_files,         \* dict category -> records written to its file
    read_classifications, \* dict query_name -> category
    saved,                \* number of save_statistics calls
    error,                \* the exception that ended the run, "" for none
    handles,              \* the file handles the run has opened, in the
                          \* order of opening: [path, state]
    \* ---- a second run of process_bam_file on the same arguments ----
    env,                  \* <<>> before the first run starts, then
                          \* <<[samtools_ok, has_read_groups]>>
    previous              \* <<>> during the first run, then <<what the
                          \* first run left: stats, read_classifications>>

argVars == <<arg_sequence, arg_barcodes, arg_max_mismatches, arg_seq2,
             arg_read>>

fnVars == <<argVars, ret>>

statVars == <<stats, calls, exported>>

runVars == <<config, bam, pc, pos, categories, output_files,
             read_classifications, saved, error, handles>>

rerunVars == <<env, previous>>

vars == <<fnVars, statVars, runVars, rerunVars>>

-----------------------------------------------------------------------------
(* Bounds of the model *)

\* longest read sequence handed to the classifier
MaxSeqLen == 3
\* size of a barcode list: the barcode sequences of one list hold at most
\* this many characters in total (so a list has at most this many barcodes
\* and a barcode at most this many characters)
MaxBarcodeChars == 3
\* largest max_mismatches
MaxMismatches == 1
\* most update_barcode_match calls made on one statistics object
MaxCalls == 3
\* most records in the BAM file of a run
MaxReads == 2

-----------------------------------------------------------------------------
(* Input alphabets *)

\* characters of read sequences: an upper-case base and a lower-case one
ReadBases == {"A", "g"}
\* characters of barcode sequences
BarcodeBases == {"A", "C"}

\* Optional values
None == <<>>

Some(v) == <<v>>

\* all sequences over S of length lo..hi
SeqsOf(S, lo, hi) ==
    UNION {[1..n -> S] : n \in lo..hi}

-----------------------------------------------------------------------------
(* core.py: enumerations *)

OrientationType == {"FR", "RC", "ANY"}

BarcodeLocationType == {"5", "3", "UNK"}

-----------------------------------------------------------------------------
(* Sequence primitives *)

\* str.upper() on one character
UpperChar(c) ==
    CASE c = "a" -> "A"
      [] c = "c" -> "C"
      [] c = "g" -> "G"
      [] c = "t" -> "T"
      [] c = "n" -> "N"
      [] OTHER -> c

\* str.upper()
Upper(s) ==
    [i \in 1..Len(s) |-> UpperChar(s[i])]

\* Bio.Seq complement of one base; other characters are left as they are
ComplementBase(b) ==
    CASE b = "A" -> "T"
      [] b = "T" -> "A"
      [] b = "C" -> "G"
      [] b = "G" -> "C"
      [] b = "a" -> "t"
      [] b = "t" -> "a"
      [] b = "c" -> "g"
      [] b = "g" -> "c"
      [] OTHER -> b

\* the complement of every base, in the order of the input
complement_unreversed(s) ==
    [i \in 1..Len(s) |-> ComplementBase(s[i])]

\* BarcodeConfig.reverse_complement / sequence_utils.reverse_complement
reverse_complement(s) ==
    [i \in 1..Len(s) |-> ComplementBase(s[Len(s) + 1 - i])]

RECURSIVE Strip(_)
\* str.strip(): leading and trailing blanks removed
Strip(s) ==
    IF s = <<>> THEN s
    ELSE IF Head(s) = " " THEN Strip(Tail(s))
    ELSE IF s[Len(s)] = " " THEN Strip(SubSeq(s, 1, Len(s) - 1))
    ELSE s

\* the BarcodeConfig dataclass after __post_init__ (sequence stripped and
\* upper-cased, name defaulting to the sequence)
BarcodeConfig(sequence, location, name) ==
    [sequence |-> Upper(Strip(sequence)),
     location |-> location,
     name     |-> IF name = None THEN Upper(Strip(sequence)) ELSE name[1]]

\* BarcodeExtractor._validate_barcodes: the exception it raises, "" when
\* it returns, and whether it logged the duplicate-sequences warning.
\* `all(base in valid_bases for base in barcode.sequence)` is true of an
\* empty sequence.
validate_barcodes(barcodes) ==
    LET valid_bases == {"A", "C", "G", "T", "N"}
        sequences == [i \in 1..Len(barcodes) |-> barcodes[i].sequence]
        duplicates == Len(sequences) # Cardinality({sequences[i] : i \in 1..Len(sequences)})
        invalid == \E i \in 1..Len(barcodes) :
                      \E j \in 1..Len(barcodes[i].sequence) :
                          barcodes[i].sequence[j] \notin valid_bases
    IN  IF barcodes = <<>>
        THEN [raised |-> "ValueError", warned |-> FALSE]
        ELSE [raised |-> IF invalid THEN "ValueError" ELSE "",
              warned |-> duplicates]

RECURSIVE CountDifferences(_, _)
\* sum(a != b for a, b in zip(seq1, seq2)); zip stops at the shorter one
CountDifferences(seq1, seq2) ==
    IF seq1 = <<>> \/ seq2 = <<>> THEN 0
    ELSE (IF Head(seq1) # Head(seq2) THEN 1 ELSE 0)
         + CountDifferences(Tail(seq1), Tail(seq2))

\* hamming_distance without the length check
hamming_distance_unchecked(seq1, seq2) ==
    [raised |-> "", value |-> CountDifferences(seq1, seq2)]

\* hamming_distance(seq1, seq2): the exception it raises, "" when it
\* returns, and the value returned
hamming_distance(seq1, seq2) ==
    IF Len(seq1) # Len(seq2)
    THEN [raised |-> "ValueError", value |-> 0]
    ELSE [raised |-> "", value |-> CountDifferences(seq1, seq2)]

-----------------------------------------------------------------------------
(* Barcode matcher *)

\* s[p : p+n] for a 0-based offset p (Python slice, clipped at the end)
Slice(s, p, n) ==
    SubSeq(s, p + 1, IF p + n > Len(s) THEN Len(s) ELSE p + n)

\* text from 0-based offset p to its end
From(s, p) ==
    SubSeq(s, p + 1, Len(s))

\* 0-based positions at which the literal pattern occurs in text
ExactPositions(pattern, text) ==
    {p \in 0..(Len(text) - Len(pattern)) : Slice(text, p, Len(pattern)) = pattern}

RECURSIVE PrefixWithin(_, _, _)
\* some prefix of text is at most k edits (substitutions, insertions,
\* deletions) away from pattern: the regex module's (pattern){e<=k} anchored
\* at the start of text
PrefixWithin(pattern, text, k) ==
    IF pattern = <<>> THEN TRUE
    ELSE IF text = <<>> THEN Len(pattern) <= k
    ELSE \/ /\ Head(pattern) = Head(text)
            /\ PrefixWithin(Tail(pattern), Tail(text), k)
         \/ /\ k > 0
            /\ \/ PrefixWithin(Tail(pattern), Tail(text), k - 1)  \* substitution
               \/ PrefixWithin(pattern, Tail(text), k - 1)        \* insertion
               \/ PrefixWithin(Tail(pattern), text, k - 1)        \* deletion

\* 0-based positions at which a fuzzy match of pattern can start
FuzzyPositions(pattern, text, k) ==
    {p \in 0..Len(text) : PrefixWithin(pattern, From(text, p), k)}

\* smallest element of a non-empty set of naturals
Min(S) ==
    CHOOSE x \in S : \A y \in S : x <= y

\* re.search(pattern, text) for max_mismatches = 0 and
\* regex.compile("(pattern){e<=k}").search(text) otherwise: the start of the
\* leftmost match, or -1 for no match (the matched text is not modelled)
SearchPattern(pattern, text, max_mismatches) ==
    LET ps == IF max_mismatches = 0
              THEN ExactPositions(pattern, text)
              ELSE FuzzyPositions(pattern, text, max_mismatches)
    IN  IF ps = {} THEN -1 ELSE Min(ps)

\* the BarcodeMatch dataclass
BarcodeMatch(barcode, orientation, position) ==
    [barcode |-> barcode, orientation |-> orientation, position |-> position]

-----------------------------------------------------------------------------
(* Classifier *)

\* len(barcodes) == 1 or all(b.location.value == "UNK" for b in barcodes)
SingleBarcodeMode(barcodes) ==
    \/ Len(barcodes) = 1
    \/ \A i \in 1..Len(barcodes) : barcodes[i].location = "UNK"

\* the f-string f"barcode{location}_orient{orientation}"
FormatCategory(location, orientation) ==
    CASE location = "5" /\ orientation = "FR" -> "barcode5_orientFR"
      [] location = "5" /\ orientation = "RC" -> "barcode5_orientRC"
      [] location = "3" /\ orientation = "FR" -> "barcode3_orientFR"
      [] location = "3" /\ orientation = "RC" -> "barcode3_orientRC"
      [] location = ""  /\ orientation = "FR" -> "barcode_orientFR"
      [] location = ""  /\ orientation = "RC" -> "barcode_orientRC"

\* FirstMatchCategory with the mode test dropped: the location is always used
FirstMatchCategoryNoMode(barcode, orientation, single_barcode_mode) ==
    FormatCategory(IF barcode.location \in {"5", "3"} THEN barcode.location ELSE "",
                   orientation)

\* the category string built at each return of classify_read_by_first_match
FirstMatchCategory(barcode, orientation, single_barcode_mode) ==
    IF single_barcode_mode
    THEN IF orientation = "FR" THEN "barcode_orientFR" ELSE "barcode_orientRC"
    ELSE LET location == IF barcode.location \in {"5", "3"}
                         THEN barcode.location ELSE ""
         IN  FormatCategory(location, orientation)

RECURSIVE ScanBarcodesRcFirst(_, _, _, _, _)
\* ScanBarcodes with the two orientation checks in the other order
ScanBarcodesRcFirst(sequence, barcodes, max_mismatches, single_barcode_mode, i) ==
    IF i > Len(barcodes) THEN [match |-> None, category |-> "noBarcode"]
    ELSE LET barcode == barcodes[i]
             fw == SearchPattern(barcode.sequence, sequence, max_mismatches)
             rc == SearchPattern(reverse_complement(barcode.sequence),
                                 sequence, max_mismatches)
         IN  IF rc >= 0
             THEN [match    |-> Some(BarcodeMatch(barcode, "RC", rc)),
                   category |-> FirstMatchCategory(barcode, "RC", single_barcode_mode)]
             ELSE IF fw >= 0
             THEN [match    |-> Some(BarcodeMatch(barcode, "FR", fw)),
                   category |-> FirstMatchCategory(barcode, "FR", single_barcode_mode)]
             ELSE ScanBarcodesRcFirst(sequence, barcodes, max_mismatches,
                                      single_barcode_mode, i + 1)

RECURSIVE ScanBarcodes(_, _, _, _, _)
\* the loop `for barcode in barcodes` of classify_read_by_first_match,
\* from list index i on: forward orientation first, then reverse complement
ScanBarcodes(sequence, barcodes, max_mismatches, single_barcode_mode, i) ==
    IF i > Len(barcodes) THEN [match |-> None, category |-> "noBarcode"]
    ELSE LET barcode == barcodes[i]
             fw == SearchPattern(barcode.sequence, sequence, max_mismatches)
             rc == SearchPattern(reverse_complement(barcode.sequence),
                                 sequence, max_mismatches)
         IN  IF fw >= 0
             THEN [match    |-> Some(BarcodeMatch(barcode, "FR", fw)),
                   category |-> FirstMatchCategory(barcode, "FR", single_barcode_mode)]
             ELSE IF rc >= 0
             THEN [match    |-> Some(BarcodeMatch(barcode, "RC", rc)),
                   category |-> FirstMatchCategory(barcode, "RC", single_barcode_mode)]
             ELSE ScanBarcodes(sequence, barcodes, max_mismatches,
                               single_barcode_mode, i + 1)

\* classify_read_by_first_match(sequence, barcodes, max_mismatches)
classify_read_by_first_match(sequence, barcodes, max_mismatches) ==
    ScanBarcodes(Upper(sequence), barcodes, max_mismatches,
                 SingleBarcodeMode(barcodes), 1)

\* get_output_category(match, single_barcode_mode)
get_output_category(match, single_barcode_mode) ==
    IF match = None THEN "noBarcode"
    ELSE IF single_barcode_mode
    THEN FormatCategory("", match[1].orientation)
    ELSE LET location == match[1].barcode.location
         IN  IF location \in {"5", "3"}
             THEN FormatCategory(location, match[1].orientation)
             ELSE FormatCategory("", match[1].orientation)

-----------------------------------------------------------------------------
(* All-matches and best-match searches: sequence_utils.py                *)

RECURSIVE ExactFindIter(_, _, _)
\* [m.start() for m in re.finditer(pattern, text)] from offset p on: the
\* leftmost occurrence at or after p, then the search resumes at the end
\* of that occurrence, so matches do not overlap
ExactFindIter(pattern, text, p) ==
    LET starts == {q \in ExactPositions(pattern, text) : q >= p}
    IN  IF starts = {} THEN <<>>
        ELSE LET q == Min(starts)
             IN  <<q>> \o ExactFindIter(pattern, text,
                                        IF pattern = <<>> THEN q + 1
                                        ELSE q + Len(pattern))

RECURSIVE WithinEdits(_, _, _)
\* all of s is at most k edits away from pattern
WithinEdits(pattern, s, k) ==
    IF pattern = <<>> THEN Len(s) <= k
    ELSE IF s = <<>> THEN Len(pattern) <= k
    ELSE \/ /\ Head(pattern) = Head(s)
            /\ WithinEdits(Tail(pattern), Tail(s), k)
         \/ /\ k > 0
            /\ \/ WithinEdits(Tail(pattern), Tail(s), k - 1)
               \/ WithinEdits(pattern, Tail(s), k - 1)
               \/ WithinEdits(Tail(pattern), s, k - 1)

\* what the regex module may report for a match of (pattern){e<=k} that
\* starts at offset p: where it ends and the total of its fuzzy_counts.
\* The module returns the first match it finds, which need not have the
\* fewest errors.
FuzzySpans(pattern, text, p, k) ==
    {m \in [end : p..Len(text), edits : 0..k] :
        WithinEdits(pattern, SubSeq(text, p + 1, m.end), m.edits)}

\* the ways the regex module may pick among the possible matches at one
\* offset
FuzzyPolicies == {"fewest_errors", "most_errors"}

\* the match picked among `spans` (not empty): with the fewest errors and
\* then the shortest, or with the most errors and then the longest
ChooseSpan(spans, policy) ==
    IF policy = "fewest_errors"
    THEN CHOOSE m \in spans : \A n \in spans :
            \/ m.edits < n.edits
            \/ m.edits = n.edits /\ m.end <= n.end
    ELSE CHOOSE m \in spans : \A n \in spans :
            \/ m.edits > n.edits
            \/ m.edits = n.edits /\ m.end >= n.end

RECURSIVE FuzzyFindIter(_, _, _, _, _)
\* regex.compile("(pattern){e<=k}").finditer(text) from offset p on: the
\* matches in order, each with its position and its error count; the
\* search resumes where the previous match ended
FuzzyFindIter(pattern, text, k, policy, p) ==
    LET starts == {q \in p..Len(text) : FuzzySpans(pattern, text, q, k) # {}}
    IN  IF starts = {} THEN <<>>
        ELSE LET q == Min(starts)
                 m == ChooseSpan(FuzzySpans(pattern, text, q, k), policy)
             IN  <<[position |-> q, edits |-> m.edits]>>
                 \o FuzzyFindIter(pattern, text, k, policy,
                                  IF m.end > q THEN m.end ELSE q + 1)

\* the matches one barcode adds to the list in find_barcode_matches:
\* forward ones, then reverse-complement ones
BarcodeMatchesOf(text, barcode, max_mismatches, policy) ==
    LET rc_seq == reverse_complement(barcode.sequence)
        fr == IF max_mismatches = 0
              THEN ExactFindIter(barcode.sequence, text, 0)
              ELSE LET ms == FuzzyFindIter(barcode.sequence, text,
                                           max_mismatches, policy, 0)
                   IN  [j \in 1..Len(ms) |-> ms[j].position]
        rc == IF max_mismatches = 0
              THEN ExactFindIter(rc_seq, text, 0)
              ELSE LET ms == FuzzyFindIter(rc_seq, text,
                                           max_mismatches, policy, 0)
                   IN  [j \in 1..Len(ms) |-> ms[j].position]
    IN  [j \in 1..Len(fr) |-> BarcodeMatch(barcode, "FR", fr[j])]
        \o [j \in 1..Len(rc) |-> BarcodeMatch(barcode, "RC", rc[j])]

RECURSIVE FindMatchesLoop(_, _, _, _)
\* the loop `for barcode in barcodes` of find_barcode_matches
FindMatchesLoop(text, barcodes, max_mismatches, policy) ==
    IF barcodes = <<>> THEN <<>>
    ELSE BarcodeMatchesOf(text, Head(barcodes), max_mismatches, policy)
         \o FindMatchesLoop(text, Tail(barcodes), max_mismatches, policy)

\* find_barcode_matches(sequence, barcodes, max_mismatches)
find_barcode_matches(sequence, barcodes, max_mismatches, policy) ==
    FindMatchesLoop(Upper(sequence), barcodes, max_mismatches, policy)

\* the fuzzy matches of one pattern, as candidates of the best-match search
CandidatesOf(text, barcode, orientation, pattern, max_mismatches, policy) ==
    LET ms == FuzzyFindIter(pattern, text, max_mismatches, policy, 0)
    IN  [j \in 1..Len(ms) |->
            [barcode |-> barcode, orientation |-> orientation,
             position |-> ms[j].position, edits |-> ms[j].edits]]

RECURSIVE Candidates(_, _, _, _)
\* the matches find_best_barcode_match iterates over, in the order it
\* meets them: barcode by barcode, forward before reverse complement,
\* each finditer from left to right
Candidates(text, barcodes, max_mismatches, policy) ==
    IF barcodes = <<>> THEN <<>>
    ELSE LET b == Head(barcodes)
         IN  CandidatesOf(text, b, "FR", b.sequence, max_mismatches, policy)
             \o CandidatesOf(text, b, "RC", reverse_complement(b.sequence),
                             max_mismatches, policy)
             \o Candidates(text, Tail(barcodes), max_mismatches, policy)

RECURSIVE BestLoopKeepingLast(_, _, _)
\* the comparison with <= in place of <: a later candidate with as few
\* edits replaces the best match
BestLoopKeepingLast(cands, best_match, min_mismatches) ==
    IF cands = <<>> THEN best_match
    ELSE LET c == Head(cands)
         IN  IF c.edits <= min_mismatches
             THEN BestLoopKeepingLast(Tail(cands),
                      Some(BarcodeMatch(c.barcode, c.orientation, c.position)),
                      c.edits)
             ELSE BestLoopKeepingLast(Tail(cands), best_match, min_mismatches)

RECURSIVE BestLoop(_, _, _)
\* the updates of best_match and min_mismatches over the candidates:
\* `if total_mismatches < min_mismatches`
BestLoop(cands, best_match, min_mismatches) ==
    IF cands = <<>> THEN best_match
    ELSE LET c == Head(cands)
         IN  IF c.edits < min_mismatches
             THEN BestLoop(Tail(cands),
                           Some(BarcodeMatch(c.barcode, c.orientation, c.position)),
                           c.edits)
             ELSE BestLoop(Tail(cands), best_match, min_mismatches)

\* find_best_barcode_match(sequence, barcodes, max_mismatches): an Optional
\* BarcodeMatch
find_best_barcode_match(sequence, barcodes, max_mismatches, policy) ==
    BestLoop(Candidates(Upper(sequence), barcodes, max_mismatches, policy),
             None, max_mismatches + 1)

-----------------------------------------------------------------------------
(* Statistics aggregator: core.py, ExtractionStatistics.                  *)
(* A Python dict is a sequence of <<key, value>> entries in insertion     *)
(* order.                                                                 *)

\* key in d
DictHas(d, key) ==
    \E i \in 1..Len(d) : d[i][1] = key

\* d.get(key, default)
DictGet(d, key, default) ==
    IF DictHas(d, key)
    THEN d[CHOOSE i \in 1..Len(d) : d[i][1] = key][2]
    ELSE default

\* d[key] = value
DictSet(d, key, value) ==
    IF DictHas(d, key)
    THEN [i \in 1..Len(d) |-> IF d[i][1] = key THEN <<key, value>> ELSE d[i]]
    ELSE Append(d, <<key, value>>)

\* if key not in d: d[key] = 0; d[key] += 1
DictIncrement(d, key) ==
    LET d0 == IF DictHas(d, key) THEN d ELSE DictSet(d, key, 0)
    IN  DictSet(d0, key, DictGet(d0, key, 0) + 1)

RECURSIVE DictSum(_)
\* sum(d.values())
DictSum(d) ==
    IF d = <<>> THEN 0 ELSE d[1][2] + DictSum(Tail(d))

\* ExtractionStatistics(): the dataclass defaults
NewExtractionStatistics ==
    [total_reads            |-> 0,
     total_barcode_matches  |-> 0,
     matches_by_barcode     |-> <<>>,
     matches_by_orientation |-> <<>>,
     matches_by_category    |-> <<>>,
     no_barcode_count       |-> 0]

\* the category update_barcode_match derives when none is given
DerivedCategory(barcode_match) ==
    LET location == barcode_match.barcode.location
    IN  IF location \in {"5", "3"}
        THEN FormatCategory(location, barcode_match.orientation)
        ELSE FormatCategory("", barcode_match.orientation)

\* update_barcode_match that leaves matches_by_category alone when no
\* category is passed
update_barcode_match_no_derive(st, barcode_match, category) ==
    [st EXCEPT
        !.total_barcode_matches  = @ + 1,
        !.matches_by_barcode     = DictIncrement(@, barcode_match.barcode.name),
        !.matches_by_orientation = DictIncrement(@, barcode_match.orientation),
        !.matches_by_category    = IF category = None THEN @
                                   ELSE DictIncrement(@, category[1])]

\* ExtractionStatistics.update_barcode_match(barcode_match, category);
\* category is an Optional string
update_barcode_match(st, barcode_match, category) ==
    LET cat == IF category = None THEN DerivedCategory(barcode_match)
               ELSE category[1]
    IN  [st EXCEPT
            !.total_barcode_matches  = @ + 1,
            !.matches_by_barcode     = DictIncrement(@, barcode_match.barcode.name),
            !.matches_by_orientation = DictIncrement(@, barcode_match.orientation),
            !.matches_by_category    = DictIncrement(@, cat)]

\* a / b, kept as the pair of its operands
Quotient(a, b) ==
    [num |-> a, den |-> b]

\* to_dict that divides whatever total_reads is
to_dict_unguarded(st) ==
    [total_reads            |-> st.total_reads,
     total_barcode_matches  |-> st.total_barcode_matches,
     matches_by_barcode     |-> st.matches_by_barcode,
     matches_by_orientation |-> st.matches_by_orientation,
     matches_by_category    |-> st.matches_by_category,
     no_barcode_count       |-> st.no_barcode_count,
     match_rate             |-> Quotient(st.total_barcode_matches, st.total_reads)]

\* ExtractionStatistics.to_dict(): the fields and the match rate, which
\* is 0 for total_reads == 0
to_dict(st) ==
    [total_reads            |-> st.total_reads,
     total_barcode_matches  |-> st.total_barcode_matches,
     matches_by_barcode     |-> st.matches_by_barcode,
     matches_by_orientation |-> st.matches_by_orientation,
     matches_by_category    |-> st.matches_by_category,
     no_barcode_count       |-> st.no_barcode_count,
     match_rate             |-> IF st.total_reads > 0
                                THEN Quotient(st.total_barcode_matches,
                                              st.total_reads)
                                ELSE Quotient(0, 1)]

-----------------------------------------------------------------------------
(* BAM processing: bam_processing.py.                                     *)
(* A read record has query_name, query_sequence (Optional), is_unmapped,  *)
(* is_reverse and cigartuples (a list of <<operation, length>>; pysam's   *)
(* None for "no CIGAR" is the empty list, both are false in `not cigar`). *)

\* the CIGAR operation code of a soft clip
BAM_CSOFT_CLIP == 4

\* s[:n]
Prefix(s, n) ==
    SubSeq(s, 1, IF n > Len(s) THEN Len(s) ELSE n)

\* s[-n:], which is all of s for n = 0
Suffix(s, n) ==
    IF n = 0 \/ n > Len(s) THEN s ELSE SubSeq(s, Len(s) - n + 1, Len(s))

\* extract_softclipped_region(read): [raised |-> FALSE, value |-> the
\* string] or, when the slice is taken of an absent query_sequence,
\* [raised |-> TRUE, value |-> <<>>] for the TypeError
extract_softclipped_region(read) ==
    LET cigar == read.cigartuples
        empty == [raised |-> FALSE, value |-> <<>>]
        clip(op, side) ==
            IF op[1] # BAM_CSOFT_CLIP THEN empty
            ELSE IF read.query_sequence = None
            THEN [raised |-> TRUE, value |-> <<>>]
            ELSE [raised |-> FALSE,
                  value  |-> IF side = "last"
                             THEN Suffix(read.query_sequence[1], op[2])
                             ELSE Prefix(read.query_sequence[1], op[2])]
    IN  IF read.is_unmapped THEN empty
        ELSE IF cigar = <<>> THEN empty
        ELSE IF read.is_reverse THEN clip(cigar[Len(cigar)], "last")
        ELSE clip(cigar[1], "first")

\* classify_read(sequence, barcodes, max_mismatches, single_barcode_mode)
classify_read(sequence, barcodes, max_mismatches, single_barcode_mode) ==
    LET r == classify_read_by_first_match(Upper(sequence), barcodes, max_mismatches)
        match == r.match
    IN  IF match # None /\ single_barcode_mode
        THEN [match    |-> match,
              category |-> IF match[1].orientation = "FR"
                           THEN "barcode_orientFR" ELSE "barcode_orientRC"]
        ELSE IF match # None /\ match[1].barcode.location \in {"5", "3"}
        THEN [match    |-> match,
              category |-> FormatCategory(match[1].barcode.location,
                                          match[1].orientation)]
        ELSE [match |-> match, category |-> "noBarcode"]

RECURSIVE LocatedCategories(_)
\* the loop over the barcodes in prepare_categories and
\* prepare_bam_categories: two categories per barcode located at 5 or 3
LocatedCategories(barcodes) ==
    IF barcodes = <<>> THEN <<>>
    ELSE (IF Head(barcodes).location \in {"5", "3"}
          THEN <<FormatCategory(Head(barcodes).location, "FR"),
                 FormatCategory(Head(barcodes).location, "RC")>>
          ELSE <<>>) \o LocatedCategories(Tail(barcodes))

\* prepare_bam_categories(barcodes, single_barcode_mode)
prepare_bam_categories(barcodes, single_barcode_mode) ==
    (IF single_barcode_mode
     THEN <<"barcode_orientFR", "barcode_orientRC">>
     ELSE LocatedCategories(barcodes)) \o <<"noBarcode">>

\* sequence_utils.prepare_categories(barcodes, keep_unmatched)
prepare_categories(barcodes, keep_unmatched) ==
    (IF SingleBarcodeMode(barcodes)
     THEN <<"barcode_orientFR", "barcode_orientRC">>
     ELSE LocatedCategories(barcodes))
    \o (IF keep_unmatched THEN <<"noBarcode">> ELSE <<>>)

\* BamUtils.get_read_count(bam_file): samtools idxstats gives mapped +
\* unmapped over all lines, the number of records of the file. When
\* samtools fails the fallback sums over the @RG header lines: with no @RG
\* line the sum is empty and 0 is returned; with @RG lines the expression
\* raises and the records are counted.
get_read_count(records, samtools_ok, has_read_groups) ==
    IF samtools_ok THEN Len(records)
    ELSE IF has_read_groups THEN Len(records)
    ELSE 0

\* get_output_path(output_prefix, output_dir, category): the path
\* output_dir/output_prefix_category.bam, as its three parts
get_output_path(category) ==
    <<"output_dir/output_prefix_", category, ".bam">>

\* the path given as bam_file
InputPath ==
    <<"bam_file">>

\* pysam.AlignmentFile(path, ...): one more handle, open
OpenHandle(hs, path) ==
    Append(hs, [path |-> path, state |-> "open"])

\* close() on the handle in use on the path
CloseHandle(hs, path) ==
    [i \in 1..Len(hs) |->
        IF hs[i].path = path /\ hs[i].state = "open"
        THEN [hs[i] EXCEPT !.state = "closed"] ELSE hs[i]]

\* the last reference to the handle in use on the path goes away without
\* close(): a temporary of an expression, or a dict entry that is
\* overwritten; closing is left to the finaliser of the object
ReleaseHandle(hs, path) ==
    [i \in 1..Len(hs) |->
        IF hs[i].path = path /\ hs[i].state = "open"
        THEN [hs[i] EXCEPT !.state = "released"] ELSE hs[i]]

\* the `finally` block: bamfile.close() and f.close() for every value of
\* output_files, the handles the function still refers to
CloseHandles(hs) ==
    [i \in 1..Len(hs) |->
        IF hs[i].state = "open"
        THEN [hs[i] EXCEPT !.state = "closed"] ELSE hs[i]]

RECURSIVE OpenOutputHandles(_, _)
\* the handles after the loop `for category in categories` that opens
\* the output files: the new handle is opened and then stored under the
\* category, which drops the handle a repeated category had stored
OpenOutputHandles(cats, hs) ==
    IF cats = <<>> THEN hs
    ELSE LET path == get_output_path(Head(cats))
         IN  OpenOutputHandles(Tail(cats),
                 Append(ReleaseHandle(hs, path),
                        [path |-> path, state |-> "open"]))

\* the handles before the output files are opened: the one of the index
\* check, a temporary, and `bamfile`
InputHandles ==
    OpenHandle(ReleaseHandle(OpenHandle(<<>>, InputPath), InputPath), InputPath)

\* `bamfile.close()` and `bamfile = pysam.AlignmentFile(bam_file, "rb")`
\* between the passes
ReopenInput(hs) ==
    OpenHandle(CloseHandle(hs, InputPath), InputPath)

RECURSIVE OpenOutputFiles(_, _)
\* the loop `for category in categories` that fills output_files with a
\* new, empty file per category (a repeated category overwrites its entry)
OpenOutputFiles(cats, files) ==
    IF cats = <<>> THEN files
    ELSE OpenOutputFiles(Tail(cats), DictSet(files, Head(cats), <<>>))

\* a first-pass iteration that does not skip a record whose identifier is
\* already classified
ClassifyRecordRepeating(cfg, st, rc, read) ==
    LET single == SingleBarcodeMode(cfg.barcodes)
        ex == IF cfg.search_softclipped
              THEN extract_softclipped_region(read)
              ELSE [raised |-> FALSE,
                    value  |-> IF read.query_sequence = None THEN <<>>
                               ELSE read.query_sequence[1]]
        r == classify_read(ex.value, cfg.barcodes, cfg.max_mismatches, single)
    IN  IF ex.raised
        THEN [stats |-> st, read_classifications |-> rc, raised |-> TRUE]
        ELSE IF ex.value = <<>>
        THEN [stats |-> st, read_classifications |-> rc, raised |-> FALSE]
        ELSE IF r.match # None
        THEN [stats |-> update_barcode_match(st, r.match[1], Some(r.category)),
              read_classifications |-> DictSet(rc, read.query_name, r.category),
              raised |-> FALSE]
        ELSE [stats |-> st, read_classifications |-> rc, raised |-> FALSE]

\* one iteration of the first pass of process_bam_file on record `read`:
\* the statistics and the classifications after it, and whether it raised
ClassifyRecord(cfg, st, rc, read) ==
    LET single == SingleBarcodeMode(cfg.barcodes)
        ex == IF cfg.search_softclipped
              THEN extract_softclipped_region(read)
              ELSE [raised |-> FALSE,
                    value  |-> IF read.query_sequence = None THEN <<>>
                               ELSE read.query_sequence[1]]
        r == classify_read(ex.value, cfg.barcodes, cfg.max_mismatches, single)
    IN  IF DictHas(rc, read.query_name)
        THEN [stats |-> st, read_classifications |-> rc, raised |-> FALSE]
        ELSE IF ex.raised
        THEN [stats |-> st, read_classifications |-> rc, raised |-> TRUE]
        ELSE IF ex.value = <<>>
        THEN [stats |-> st, read_classifications |-> rc, raised |-> FALSE]
        ELSE IF r.match # None
        THEN [stats |-> update_barcode_match(st, r.match[1], Some(r.category)),
              read_classifications |-> DictSet(rc, read.query_name, r.category),
              raised |-> FALSE]
        ELSE [stats |-> st, read_classifications |-> rc, raised |-> FALSE]

\* the second pass writing every record to the noBarcode file
RouteRecordUnclassified(files, rc, read) ==
    IF DictHas(files, "noBarcode")
    THEN DictSet(files, "noBarcode", Append(DictGet(files, "noBarcode", <<>>), read))
    ELSE files

\* one iteration of the second pass: output_files after record `read`
RouteRecord(files, rc, read) ==
    LET category == DictGet(rc, read.query_name, "noBarcode")
    IN  IF DictHas(files, category)
        THEN DictSet(files, category, Append(DictGet(files, category, <<>>), read))
        ELSE files

\* a run that goes on to save the statistics after a failed read
AfterStreamErrorSwallowed ==
    "save"

\* where the run goes when iterating the BAM file raises: the exception
\* leaves the try block through `finally` and process_bam_file
AfterStreamError ==
    "failed"

-----------------------------------------------------------------------------
(* Specification SpecClassify: calls of the classifier on bounded inputs *)

\* the barcode configurations with a sequence of k characters
BarcodeConfigs(k) ==
    {BarcodeConfig(s, l, None) :
        s \in SeqsOf(BarcodeBases, k, k), l \in BarcodeLocationType}

RECURSIVE BarcodeListsWithin(_)
\* the barcode lists whose sequences hold at most n characters in total
BarcodeListsWithin(n) ==
    {<<>>} \cup
    UNION {{<<b>> \o rest : b \in BarcodeConfigs(k),
                            rest \in BarcodeListsWithin(n - k)} : k \in 1..n}

BarcodeLists ==
    BarcodeListsWithin(MaxBarcodeChars)

\* no pure function is being called
IdleFn ==
    /\ arg_sequence = <<>>
    /\ arg_barcodes = <<>>
    /\ arg_max_mismatches = 0
    /\ arg_seq2 = <<>>
    /\ arg_read = None
    /\ ret = None

\* no statistics object is in use
IdleStats ==
    /\ stats = NewExtractionStatistics
    /\ calls = 0
    /\ exported = None

\* no second run is being compared with a first one
IdleRerun ==
    /\ env = None
    /\ previous = None

\* no run of process_bam_file is in progress
IdleRun ==
    /\ IdleRerun
    /\ config = <<>>
    /\ bam = None
    /\ pc = "idle"
    /\ pos = 0
    /\ categories = <<>>
    /\ output_files = <<>>
    /\ read_classifications = <<>>
    /\ saved = 0
    /\ error = ""
    /\ handles = <<>>

InitClassify ==
    /\ arg_sequence \in SeqsOf(ReadBases, 0, MaxSeqLen)
    /\ arg_barcodes \in BarcodeLists
    /\ arg_max_mismatches \in 0..MaxMismatches
    /\ arg_seq2 = <<>>
    /\ arg_read = None
    /\ ret = None
    /\ IdleStats
    /\ IdleRun

\* one call of classify_read_by_first_match
CallClassifyFirstMatch ==
    /\ ret = None
    /\ ret' = Some(classify_read_by_first_match(arg_sequence, arg_barcodes,
                                                 arg_max_mismatches))
    /\ UNCHANGED argVars
    /\ UNCHANGED <<statVars, runVars, rerunVars>>

NextClassify ==
    CallClassifyFirstMatch

SpecClassify ==
    InitClassify /\ [][NextClassify]_vars

-----------------------------------------------------------------------------
(* Specification SpecFind: calls of the all-matches and best-match        *)
(* searches on bounded inputs                                             *)

RECURSIVE FindBarcodeListsWithin(_)
\* the barcode lists whose sequences hold at most n characters in total;
\* the searches do not read the location, which is left at its default
FindBarcodeListsWithin(n) ==
    {<<>>} \cup
    UNION {{<<BarcodeConfig(s, "UNK", None)>> \o rest :
                s \in SeqsOf(BarcodeBases, k, k),
                rest \in FindBarcodeListsWithin(n - k)} : k \in 1..n}

InitFind ==
    /\ arg_sequence \in SeqsOf(ReadBases, 0, MaxSeqLen)
    /\ arg_barcodes \in FindBarcodeListsWithin(MaxBarcodeChars)
    /\ arg_max_mismatches \in 0..MaxMismatches
    /\ arg_seq2 = <<>>
    /\ arg_read = None
    /\ ret = None
    /\ env \in {Some([fuzzy |-> policy]) : policy \in FuzzyPolicies}
    /\ previous = None
    /\ IdleStats
    /\ config = <<>>
    /\ bam = None
    /\ pc = "idle"
    /\ pos = 0
    /\ categories = <<>>
    /\ output_files = <<>>
    /\ read_classifications = <<>>
    /\ saved = 0
    /\ error = ""
    /\ handles = <<>>

\* one call of find_barcode_matches
CallFindBarcodeMatches ==
    /\ ret = None
    /\ ret' = Some([fn    |-> "find_barcode_matches",
                    value |-> find_barcode_matches(arg_sequence, arg_barcodes,
                                                   arg_max_mismatches,
                                                   env[1].fuzzy)])
    /\ UNCHANGED argVars
    /\ UNCHANGED <<statVars, runVars, rerunVars>>

\* one call of find_best_barcode_match
CallFindBestBarcodeMatch ==
    /\ ret = None
    /\ ret' = Some([fn    |-> "find_best_barcode_match",
                    value |-> find_best_barcode_match(arg_sequence, arg_barcodes,
                                                      arg_max_mismatches,
                                                      env[1].fuzzy)])
    /\ UNCHANGED argVars
    /\ UNCHANGED <<statVars, runVars, rerunVars>>

NextFind ==
    \/ CallFindBarcodeMatches
    \/ CallFindBestBarcodeMatch

SpecFind ==
    InitFind /\ [][NextFind]_vars

-----------------------------------------------------------------------------
(* Specification SpecSoftClip: calls of extract_softclipped_region on     *)
(* bounded alignment records                                              *)

\* most operations in a CIGAR
MaxCigarOps == 2
\* largest length of one CIGAR operation
MaxOpLen == 1

\* the CIGAR operations of the records: alignment match (code 0) and soft
\* clip, of length 0 (which BAM can store) to MaxOpLen
CigarOperations ==
    {<<op, n>> : op \in {0, BAM_CSOFT_CLIP}, n \in 0..MaxOpLen}

RECURSIVE QueryLength(_)
\* number of read bases a CIGAR covers (both operations consume the read)
QueryLength(cigar) ==
    IF cigar = <<>> THEN 0 ELSE Head(cigar)[2] + QueryLength(Tail(cigar))

\* the records: any CIGAR, either strand, mapped or not; the sequence is
\* not stored (SEQ "*") or has the length the CIGAR covers, any length
\* when there is no CIGAR
SoftClipReads ==
    UNION {{[query_name |-> 1, query_sequence |-> q, is_unmapped |-> u,
             is_reverse |-> r, cigartuples |-> cigar] :
               u \in BOOLEAN, r \in BOOLEAN,
               q \in {None} \cup
                     {Some(s) : s \in IF cigar = <<>>
                                      THEN SeqsOf(ReadBases, 0, MaxSeqLen)
                                      ELSE SeqsOf(ReadBases, QueryLength(cigar),
                                                  QueryLength(cigar))}} :
           cigar \in SeqsOf(CigarOperations, 0, MaxCigarOps)}

InitSoftClip ==
    /\ arg_sequence = <<>>
    /\ arg_barcodes = <<>>
    /\ arg_max_mismatches = 0
    /\ arg_seq2 = <<>>
    /\ arg_read \in {Some(read) : read \in SoftClipReads}
    /\ ret = None
    /\ IdleStats
    /\ IdleRun

\* one call of extract_softclipped_region(read)
CallExtractSoftclipped ==
    /\ ret = None
    /\ ret' = Some(extract_softclipped_region(arg_read[1]))
    /\ UNCHANGED argVars
    /\ UNCHANGED <<statVars, runVars, rerunVars>>

NextSoftClip ==
    CallExtractSoftclipped

SpecSoftClip ==
    InitSoftClip /\ [][NextSoftClip]_vars

-----------------------------------------------------------------------------
(* Specification SpecSequence: calls of reverse_complement and            *)
(* hamming_distance on bounded sequences                                  *)

\* longest sequence passed to the two functions
MaxDnaLen == 3

\* the valid DNA alphabet
DnaBases == {"A", "C", "G", "T", "N"}

InitSequence ==
    /\ arg_sequence \in SeqsOf(DnaBases, 0, MaxDnaLen)
    /\ arg_seq2 \in SeqsOf(BarcodeBases, 0, MaxDnaLen)
    /\ arg_barcodes = <<>>
    /\ arg_max_mismatches = 0
    /\ arg_read = None
    /\ ret = None
    /\ IdleStats
    /\ IdleRun

\* reverse_complement(sequence)
CallReverseComplement ==
    /\ ret = None
    /\ ret' = Some([fn     |-> "reverse_complement",
                    raised |-> "",
                    value  |-> reverse_complement(arg_sequence)])
    /\ UNCHANGED argVars
    /\ UNCHANGED <<statVars, runVars, rerunVars>>

\* reverse_complement applied to what reverse_complement(sequence) returned
CallReverseComplementAgain ==
    /\ ret # None
    /\ ret[1].fn = "reverse_complement"
    /\ ret' = Some([fn     |-> "reverse_complement twice",
                    raised |-> "",
                    value  |-> reverse_complement(ret[1].value)])
    /\ UNCHANGED argVars
    /\ UNCHANGED <<statVars, runVars, rerunVars>>

\* hamming_distance(sequence, seq2)
CallHammingDistance ==
    /\ ret = None
    /\ LET r == hamming_distance(arg_sequence, arg_seq2)
       IN  ret' = Some([fn     |-> "hamming_distance",
                        raised |-> r.raised,
                        value  |-> r.value])
    /\ UNCHANGED argVars
    /\ UNCHANGED <<statVars, runVars, rerunVars>>

NextSequence ==
    \/ CallReverseComplement
    \/ CallReverseComplementAgain
    \/ CallHammingDistance

SpecSequence ==
    InitSequence /\ [][NextSequence]_vars

-----------------------------------------------------------------------------
(* Specification SpecValidate: construction of a BarcodeExtractor from    *)
(* barcode sequences as the caller gives them                            *)

\* most barcodes given to one extractor
MaxRawBarcodes == 2
\* longest barcode sequence as given, blanks included
MaxRawLen == 2

\* characters of the sequences as given: a base, a lower-case base, a
\* character outside the alphabet and a blank
RawBases == {"A", "n", "x", " "}

\* the barcode lists a caller can build
RawBarcodeLists ==
    UNION {[1..n -> {BarcodeConfig(s, "UNK", None) :
                        s \in SeqsOf(RawBases, 0, MaxRawLen)}] :
           n \in 0..MaxRawBarcodes}

InitValidate ==
    /\ arg_sequence = <<>>
    /\ arg_barcodes \in RawBarcodeLists
    /\ arg_max_mismatches = 0
    /\ arg_seq2 = <<>>
    /\ arg_read = None
    /\ ret = None
    /\ IdleStats
    /\ IdleRun

\* BarcodeExtractor.__init__(barcodes, ...), which validates the barcodes
CallValidateBarcodes ==
    /\ ret = None
    /\ ret' = Some(validate_barcodes(arg_barcodes))
    /\ UNCHANGED argVars
    /\ UNCHANGED <<statVars, runVars, rerunVars>>

NextValidate ==
    CallValidateBarcodes

SpecValidate ==
    InitValidate /\ [][NextValidate]_vars

-----------------------------------------------------------------------------
(* Specification SpecStats: update_barcode_match calls on a fresh         *)
(* ExtractionStatistics                                                   *)

\* the barcodes of the matches passed in: one-character sequences at every
\* location with the default name, and one barcode with a name of its own
StatsBarcodes ==
    BarcodeConfigs(1) \cup {BarcodeConfig(<<"A">>, "5", Some(<<"x">>))}

StatsMatches ==
    {BarcodeMatch(b, o, 0) : b \in StatsBarcodes, o \in {"FR", "RC"}}

\* the category arguments: omitted, a located one, and noBarcode
StatsCategories ==
    {None, Some("barcode5_orientFR"), Some("noBarcode")}

InitStats ==
    /\ IdleFn
    /\ IdleRun
    /\ stats = NewExtractionStatistics
    /\ calls = 0
    /\ exported = None

\* one call stats.update_barcode_match(m, c)
CallUpdateBarcodeMatch ==
    /\ calls < MaxCalls
    /\ \E m \in StatsMatches : \E c \in StatsCategories :
          stats' = update_barcode_match(stats, m, c)
    /\ calls' = calls + 1
    /\ UNCHANGED exported
    /\ UNCHANGED <<fnVars, runVars, rerunVars>>

NextStats ==
    CallUpdateBarcodeMatch

SpecStats ==
    InitStats /\ [][NextStats]_vars

-----------------------------------------------------------------------------
(* Specification Spec: runs of process_bam_file                           *)

\* the barcode lists of a run: none, one barcode, or a barcode A followed
\* by a barcode C, each at every location
PipelineBarcodeLists ==
    {<<>>} \cup {<<b>> : b \in BarcodeConfigs(1)}
    \cup {<<a, c>> : a \in {b \in BarcodeConfigs(1) : b.sequence = <<"A">>},
                     c \in {b \in BarcodeConfigs(1) : b.sequence = <<"C">>}}

\* the records of a run that searches whole reads, less their names
\* (the alignment fields are not read): no stored sequence, and reads
\* that hold A, G or both
WholeReadShapes ==
    {[query_sequence |-> q, is_unmapped |-> FALSE, is_reverse |-> FALSE,
      cigartuples |-> <<>>] :
        q \in {None, Some(<<"A">>), Some(<<"g">>), Some(<<"A", "g">>)}}

\* the records of a run that searches soft clips, less their names:
\* a leading clip on the forward strand, a trailing clip on the reverse
\* strand, no clip at the relevant end, an unmapped read, and a clipped
\* alignment that stores no sequence (SEQ "*" of a secondary alignment)
SoftClipShapes ==
    {[query_sequence |-> Some(<<"A", "g">>), is_unmapped |-> FALSE,
      is_reverse |-> FALSE, cigartuples |-> <<<<4, 1>>, <<0, 1>>>>],
     [query_sequence |-> Some(<<"A", "g">>), is_unmapped |-> FALSE,
      is_reverse |-> TRUE, cigartuples |-> <<<<0, 1>>, <<4, 1>>>>],
     [query_sequence |-> Some(<<"A", "g">>), is_unmapped |-> FALSE,
      is_reverse |-> TRUE, cigartuples |-> <<<<4, 1>>, <<0, 1>>>>],
     [query_sequence |-> Some(<<"A">>), is_unmapped |-> TRUE,
      is_reverse |-> FALSE, cigartuples |-> <<>>],
     [query_sequence |-> None, is_unmapped |-> FALSE,
      is_reverse |-> FALSE, cigartuples |-> <<<<4, 1>>, <<0, 1>>>>]}

\* a record of the given shape with the given name
Named(shape, name) ==
    [query_name |-> name, query_sequence |-> shape.query_sequence,
     is_unmapped |-> shape.is_unmapped, is_reverse |-> shape.is_reverse,
     cigartuples |-> shape.cigartuples]

\* the names of the records of a stream; names are the numbers 1, 2, ...
\* in the order in which they first appear
NamesOf(records) ==
    {records[i].query_name : i \in 1..Len(records)}

RECURSIVE StreamsOfLen(_, _)
\* the streams of n records over the shapes
StreamsOfLen(shapes, n) ==
    IF n = 0 THEN {<<>>}
    ELSE UNION {{Append(rs, Named(sh, nm)) :
                    sh \in shapes, nm \in 1..(Cardinality(NamesOf(rs)) + 1)} :
                rs \in StreamsOfLen(shapes, n - 1)}

\* the streams of at most MaxReads records over the shapes
Streams(shapes) ==
    UNION {StreamsOfLen(shapes, n) : n \in 0..MaxReads}

\* the records of the BAM file of the run
Records ==
    bam[1]

\* bam is None for a path at which no file exists
Init ==
    /\ IdleFn
    /\ IdleStats
    /\ IdleRerun
    /\ config \in [barcodes           : PipelineBarcodeLists,
                    max_mismatches     : {0, MaxMismatches},
                    search_softclipped : BOOLEAN,
                    write_output_files : BOOLEAN,
                    keep_unmatched     : BOOLEAN]
    /\ bam \in {None} \cup
               {Some(rs) : rs \in Streams(IF config.search_softclipped
                                          THEN SoftClipShapes
                                          ELSE WholeReadShapes)}
    /\ pc = "init"
    /\ pos = 0
    /\ categories = <<>>
    /\ output_files = <<>>
    /\ read_classifications = <<>>
    /\ saved = 0
    /\ error = ""
    /\ handles = <<>>

\* process_bam_file up to the first pass, for a missing file
StartMissingFile ==
    /\ pc = "init"
    /\ bam = None
    /\ pc' = "failed"
    /\ error' = "FileNotFoundError"
    /\ UNCHANGED <<config, bam, pos, categories, output_files,
                   read_classifications, saved, handles>>
    /\ UNCHANGED <<fnVars, statVars, rerunVars>>

\* process_bam_file up to the first pass: the read count, the categories,
\* fresh statistics, and the output files when output is written, in an
\* environment where samtools runs or not and the header has @RG lines or
\* not
StartWith(samtools_ok, has_read_groups) ==
    /\ pc = "init"
    /\ bam # None
    /\ categories' = prepare_bam_categories(config.barcodes,
                                            SingleBarcodeMode(config.barcodes))
    /\ stats' = [NewExtractionStatistics EXCEPT
                    !.total_reads = get_read_count(Records, samtools_ok,
                                                   has_read_groups)]
    /\ output_files' = IF config.write_output_files
                       THEN OpenOutputFiles(categories', <<>>)
                       ELSE <<>>
    /\ read_classifications' = <<>>
    /\ pos' = 0
    /\ pc' = "pass1"
    /\ handles' = IF config.write_output_files
                  THEN OpenOutputHandles(categories', InputHandles)
                  ELSE InputHandles
    /\ UNCHANGED <<config, bam, saved, error, calls, exported>>
    /\ UNCHANGED fnVars

\* the set-up of a run; the environment is any
Start ==
    /\ \E samtools_ok \in BOOLEAN, has_read_groups \in BOOLEAN :
          StartWith(samtools_ok, has_read_groups)
    /\ UNCHANGED rerunVars

\* process_bam_file up to the failure of pysam.AlignmentFile(output_path,
\* "wb", ...) for the k-th category (the output directory is gone or not
\* writable, the disk is full): the statement stands before the try
\* block, so the exception leaves process_bam_file with no close() call
StartOutputOpenError ==
    /\ pc = "init"
    /\ bam # None
    /\ config.write_output_files
    /\ categories' = prepare_bam_categories(config.barcodes,
                                            SingleBarcodeMode(config.barcodes))
    /\ \E samtools_ok \in BOOLEAN, has_read_groups \in BOOLEAN :
          stats' = [NewExtractionStatistics EXCEPT
                       !.total_reads = get_read_count(Records, samtools_ok,
                                                      has_read_groups)]
    /\ \E k \in 1..Len(categories') :
          /\ output_files' = OpenOutputFiles(SubSeq(categories', 1, k - 1), <<>>)
          /\ handles' = OpenOutputHandles(SubSeq(categories', 1, k - 1),
                                          InputHandles)
    /\ pc' = "failed"
    /\ error' = "OSError"
    /\ UNCHANGED <<config, bam, pos, read_classifications, saved, calls,
                   exported>>
    /\ UNCHANGED <<fnVars, rerunVars>>

\* one iteration of `for read in bamfile` in the first pass
Pass1Record ==
    /\ pc = "pass1"
    /\ pos < Len(Records)
    /\ LET after == ClassifyRecord(config, stats, read_classifications,
                                   Records[pos + 1])
       IN  /\ stats' = after.stats
           /\ read_classifications' = after.read_classifications
           /\ pc' = IF after.raised THEN "failed" ELSE "pass1"
           /\ error' = IF after.raised THEN "TypeError" ELSE error
    /\ pos' = pos + 1
    /\ handles' = IF pc' = "failed" THEN CloseHandles(handles) ELSE handles
    /\ UNCHANGED <<config, bam, categories, output_files, saved, calls, exported>>
    /\ UNCHANGED <<fnVars, rerunVars>>

\* reading the BAM file raises in the first pass
Pass1StreamError ==
    /\ pc = "pass1"
    /\ pc' = AfterStreamError
    /\ error' = "StreamError"
    /\ handles' = CloseHandles(handles)
    /\ UNCHANGED <<config, bam, pos, categories, output_files,
                   read_classifications, saved>>
    /\ UNCHANGED <<fnVars, statVars, rerunVars>>

\* a first pass that can be left before the file is consumed
Pass1DoneEarly ==
    /\ pc = "pass1"
    /\ pc' = IF config.write_output_files THEN "pass2" ELSE "save"
    /\ pos' = 0
    /\ handles' = IF config.write_output_files
                  THEN ReopenInput(handles)
                  ELSE CloseHandles(handles)
    /\ UNCHANGED <<config, bam, categories, output_files,
                   read_classifications, saved, error>>
    /\ UNCHANGED <<fnVars, statVars, rerunVars>>

\* the first pass has consumed the file: the second pass starts when
\* output is written, otherwise the statistics are saved next
Pass1Done ==
    /\ pc = "pass1"
    /\ pos = Len(Records)
    /\ pc' = IF config.write_output_files THEN "pass2" ELSE "save"
    /\ pos' = 0
    /\ handles' = IF config.write_output_files
                  THEN ReopenInput(handles)
                  ELSE CloseHandles(handles)
    /\ UNCHANGED <<config, bam, categories, output_files,
                   read_classifications, saved, error>>
    /\ UNCHANGED <<fnVars, statVars, rerunVars>>

\* one iteration of `for read in bamfile` in the second pass
Pass2Record ==
    /\ pc = "pass2"
    /\ pos < Len(Records)
    /\ output_files' = RouteRecord(output_files, read_classifications,
                                   Records[pos + 1])
    /\ pos' = pos + 1
    /\ UNCHANGED <<config, bam, pc, categories, read_classifications,
                   saved, error, handles>>
    /\ UNCHANGED <<fnVars, statVars, rerunVars>>

\* reading the BAM file raises in the second pass
Pass2StreamError ==
    /\ pc = "pass2"
    /\ pc' = AfterStreamError
    /\ error' = "StreamError"
    /\ handles' = CloseHandles(handles)
    /\ UNCHANGED <<config, bam, pos, categories, output_files,
                   read_classifications, saved>>
    /\ UNCHANGED <<fnVars, statVars, rerunVars>>

\* the second pass has consumed the file: the output files are closed,
\* sorted and indexed
Pass2Done ==
    /\ pc = "pass2"
    /\ pos = Len(Records)
    /\ pc' = "save"
    /\ handles' = CloseHandles(handles)
    /\ UNCHANGED <<config, bam, pos, categories, output_files,
                   read_classifications, saved, error>>
    /\ UNCHANGED <<fnVars, statVars, rerunVars>>

\* the end of a run that saves the statistics only when output is written
SaveStatisticsOnlyWithOutput ==
    /\ pc = "save"
    /\ saved' = IF config.write_output_files THEN saved + 1 ELSE saved
    /\ exported' = IF config.write_output_files THEN Some(to_dict(stats))
                   ELSE exported
    /\ pc' = "done"
    /\ UNCHANGED <<config, bam, pos, categories, output_files,
                   read_classifications, error, handles>>
    /\ UNCHANGED <<stats, calls>>
    /\ UNCHANGED <<fnVars, rerunVars>>

\* save_statistics(stats, ...), which writes stats.to_dict() as JSON and
\* as TSV, and `return stats`
SaveStatistics ==
    /\ pc = "save"
    /\ saved' = saved + 1
    /\ exported' = Some(to_dict(stats))
    /\ pc' = "done"
    /\ UNCHANGED <<config, bam, pos, categories, output_files,
                   read_classifications, error, handles>>
    /\ UNCHANGED <<stats, calls>>
    /\ UNCHANGED <<fnVars, rerunVars>>

Next ==
    \/ StartMissingFile
    \/ Start
    \/ StartOutputOpenError
    \/ Pass1Record
    \/ Pass1StreamError
    \/ Pass1Done
    \/ Pass2Record
    \/ Pass2StreamError
    \/ Pass2Done
    \/ SaveStatistics

Spec ==
    Init /\ [][Next]_vars

-----------------------------------------------------------------------------
(* Specification SpecRerun: process_bam_file run a second time on the     *)
(* same configuration, file and environment                              *)

\* the set-up of the first run, which fixes the environment
StartFirst ==
    /\ previous = None
    /\ \E samtools_ok \in BOOLEAN, has_read_groups \in BOOLEAN :
          /\ StartWith(samtools_ok, has_read_groups)
          /\ env' = Some([samtools_ok     |-> samtools_ok,
                          has_read_groups |-> has_read_groups])
    /\ UNCHANGED previous

\* a second run that goes on with the statistics object of the first
StartAgainStale ==
    /\ previous # None
    /\ pc = "init"
    /\ bam # None
    /\ categories' = prepare_bam_categories(config.barcodes,
                                            SingleBarcodeMode(config.barcodes))
    /\ stats' = [stats EXCEPT
                    !.total_reads = get_read_count(Records, env[1].samtools_ok,
                                                   env[1].has_read_groups)]
    /\ output_files' = IF config.write_output_files
                       THEN OpenOutputFiles(categories', <<>>)
                       ELSE <<>>
    /\ read_classifications' = <<>>
    /\ pos' = 0
    /\ pc' = "pass1"
    /\ handles' = IF config.write_output_files
                  THEN OpenOutputHandles(categories', InputHandles)
                  ELSE InputHandles
    /\ UNCHANGED <<config, bam, saved, error, calls, exported>>
    /\ UNCHANGED <<fnVars, rerunVars>>

\* the set-up of the second run, in the environment of the first
StartAgain ==
    /\ previous # None
    /\ StartWith(env[1].samtools_ok, env[1].has_read_groups)
    /\ UNCHANGED rerunVars

\* the first run has returned: what it left is kept for comparison and
\* process_bam_file is called again with the same arguments
Rerun ==
    /\ pc = "done"
    /\ previous = None
    /\ previous' = Some([stats                |-> stats,
                         read_classifications |-> read_classifications])
    /\ pc' = "init"
    /\ UNCHANGED <<config, bam, pos, categories, output_files,
                   read_classifications, saved, error, env,
                   handles>>
    /\ UNCHANGED <<fnVars, statVars>>

NextRerun ==
    \/ StartMissingFile
    \/ StartFirst
    \/ StartAgain
    \/ StartOutputOpenError
    \/ Pass1Record
    \/ Pass1StreamError
    \/ Pass1Done
    \/ Pass2Record
    \/ Pass2StreamError
    \/ Pass2Done
    \/ SaveStatistics
    \/ Rerun

\* the arguments of the two runs: those of Init with keep_unmatched set,
\* a field process_bam_file does not read
InitRerun ==
    /\ Init
    /\ config.keep_unmatched

SpecRerun ==
    InitRerun /\ [][NextRerun]_vars

-----------------------------------------------------------------------------
(* Properties of process_bam_file (Spec) *)

\* the values of a list, as a set
Range(list) ==
    {list[i] : i \in 1..Len(list)}

\* the first pass is over and the run has not failed
Pass1Complete ==
    pc \in {"pass2", "save", "done"}

\* index of the first record of the file that carries the name
FirstIndexOf(name) ==
    Min({i \in 1..Len(Records) : Records[i].query_name = name})

\* the category the first pass gives a record met on its own: what an
\* iteration on it stores for its name, "noBarcode" when it stores nothing
OwnCategory(read) ==
    DictGet(ClassifyRecord(config, NewExtractionStatistics, <<>>, read)
                .read_classifications,
            read.query_name, "noBarcode")

\* the category the second pass looks up for a record
RoutedCategory(read) ==
    DictGet(read_classifications, read.query_name, "noBarcode")

\* C2 (as claimed): after pass 1 the category of every read identifier is
\* the classification of the first record of the stream that carries it,
\* also when that record has no match or an empty searched subsequence.
C2_FirstRecordDecides ==
    Pass1Complete =>
        \A name \in NamesOf(Records) :
            DictGet(read_classifications, name, "noBarcode")
                = OwnCategory(Records[FirstIndexOf(name)])

\* C4 (as claimed): a read with a match is never given the category
\* "noBarcode"; in located mode a matched barcode of UNKNOWN location
\* gives the fallback barcode_orientFR / barcode_orientRC.
C4_MatchedNeverNoBarcode ==
    /\ \A i \in 1..Len(read_classifications) :
          read_classifications[i][2] # "noBarcode"
    /\ ~DictHas(stats.matches_by_category, "noBarcode")

\* the records among the first k of the file whose looked-up category is c
RecordsRoutedTo(c, k) ==
    LET Goes(r) == RoutedCategory(r) = c
    IN  SelectSeq(SubSeq(Records, 1, k), Goes)

\* C5: in pass 2 every record is handled once: it is written to the file
\* of the category stored for its identifier ("noBarcode" when none is
\* stored) if that category is in the output set, and to no file
\* otherwise; so records sharing an identifier go to the same file.
C5_Routing ==
    (pc = "pass2" \/ (pc \in {"save", "done"} /\ config.write_output_files)) =>
        LET k == IF pc = "pass2" THEN pos ELSE Len(Records)
        IN  /\ {output_files[i][1] : i \in 1..Len(output_files)} = Range(categories)
            /\ \A i \in 1..Len(output_files) :
                  output_files[i][2] = RecordsRoutedTo(output_files[i][1], k)

\* C5 witness: the second pass is over and two different records that
\* share a classified identifier lie in the file of its category
C5_Witness ==
    /\ pc = "save"
    /\ config.write_output_files
    /\ \E i \in 1..Len(output_files) :
          /\ output_files[i][1] # "noBarcode"
          /\ Len(output_files[i][2]) = 2
          /\ output_files[i][2][1].query_name = output_files[i][2][2].query_name
          /\ output_files[i][2][1] # output_files[i][2][2]

\* number of identifiers of the file that end up classified "noBarcode"
NoBarcodeReads ==
    Cardinality({name \in NamesOf(Records) :
                    DictGet(read_classifications, name, "noBarcode") = "noBarcode"})

\* C6 (as claimed): after a completed run over a stream with one record
\* per identifier, total_reads is the number of reads, no_barcode_count
\* the number of reads classified "noBarcode", and
\* total_reads == total_barcode_matches + no_barcode_count.
C6_Counters ==
    (pc = "done" /\ Cardinality(NamesOf(Records)) = Len(Records)) =>
        /\ stats.total_reads = Len(Records)
        /\ stats.no_barcode_count = NoBarcodeReads
        /\ stats.total_reads = stats.total_barcode_matches + stats.no_barcode_count

\* C8 (as claimed): the category set of a run contains "noBarcode" if and
\* only if keep_unmatched is set, for prepare_categories and for the
\* categories process_bam_file uses.
C8_NoBarcodeIffKeepUnmatched ==
    pc \in {"pass1", "pass2", "save", "done"} =>
        /\ ("noBarcode" \in Range(categories)) <=> config.keep_unmatched
        /\ ("noBarcode" \in Range(prepare_categories(config.barcodes,
                                                      config.keep_unmatched)))
              <=> config.keep_unmatched
        /\ config.write_output_files =>
              (DictHas(output_files, "noBarcode") <=> config.keep_unmatched)

\* C10: when reading the record stream fails in pass 1 or pass 2 the run
\* aborts: nothing more is processed and save_statistics is not called.
C10_FailedRunNotSaved ==
    error # "" =>
        /\ pc = "failed"
        /\ saved = 0
        /\ ~ENABLED Next

\* C10 witness: the stream failed in pass 2 after a record was written,
\* with matches already counted
C10_Witness ==
    /\ pc = "failed"
    /\ error = "StreamError"
    /\ stats.total_barcode_matches > 0
    /\ \E i \in 1..Len(output_files) : output_files[i][2] # <<>>

\* C11: a run that completes has saved the statistics exactly once, with
\* or without output writing, and nothing is saved before the run
\* completes; without output writing the second pass is never entered and
\* no output file is opened or written.
C11_StatisticsSavedOnce ==
    /\ saved = IF pc = "done" THEN 1 ELSE 0
    /\ (pc # "init" /\ ~config.write_output_files) =>
          /\ pc # "pass2"
          /\ output_files = <<>>

\* C11 witness: a completed run without output writing that counted a
\* match and saved its statistics
C11_Witness ==
    /\ pc = "done"
    /\ ~config.write_output_files
    /\ saved = 1
    /\ stats.total_barcode_matches > 0

-----------------------------------------------------------------------------
(* Properties of a repeated run (SpecRerun) *)

-----------------------------------------------------------------------------
(* Properties of the all-matches and best-match searches (SpecFind) *)

\* the pattern searched for barcode b in the given orientation
SearchedPattern(b, orientation) ==
    IF orientation = "FR" THEN b.sequence ELSE reverse_complement(b.sequence)

\* C13 (as claimed): with max_mismatches == 0 find_barcode_matches returns
\* a FORWARD (REVERSE_COMPLEMENT) match at position p for every barcode
\* and every p at which its sequence (its reverse complement) occurs in
\* the upper-cased input, overlapping occurrences included, and no match
\* at any other position.
C13_EveryOccurrence ==
    (ret # None /\ ret[1].fn = "find_barcode_matches"
                /\ arg_max_mismatches = 0) =>
        \A i \in 1..Len(arg_barcodes) : \A o \in {"FR", "RC"} :
            \A p \in 0..Len(arg_sequence) :
                (p \in ExactPositions(SearchedPattern(arg_barcodes[i], o),
                                      Upper(arg_sequence)))
                <=> (BarcodeMatch(arg_barcodes[i], o, p) \in Range(ret[1].value))

\* the candidates of the call in progress
CallCandidates ==
    Candidates(Upper(arg_sequence), arg_barcodes, arg_max_mismatches,
               env[1].fuzzy)

\* candidate j has the fewest edits of all and is the first with that count
FirstLowest(cands, j) ==
    /\ \A i \in 1..Len(cands) : cands[i].edits >= cands[j].edits
    /\ \A i \in 1..(j - 1) : cands[i].edits > cands[j].edits

-----------------------------------------------------------------------------
(* Properties of the sequence primitives (SpecSequence) *)

\* the complement of a valid base: A<->T, C<->G, N<->N
ClaimedComplement(b) ==
    CASE b = "A" -> "T"
      [] b = "T" -> "A"
      [] b = "C" -> "G"
      [] b = "G" -> "C"
      [] b = "N" -> "N"

\* C16: for every sequence s over {A,C,G,T,N}, reverse_complement(s) is
\* the complement of each base (A<->T, C<->G, N<->N) in reverse order,
\* and reverse_complement(reverse_complement(s)) == s.
C16_ReverseComplementInvolution ==
    /\ (ret # None /\ ret[1].fn = "reverse_complement") =>
          /\ Len(ret[1].value) = Len(arg_sequence)
          /\ \A i \in 1..Len(arg_sequence) :
                ret[1].value[i]
                    = ClaimedComplement(arg_sequence[Len(arg_sequence) + 1 - i])
    /\ (ret # None /\ ret[1].fn = "reverse_complement twice") =>
          ret[1].value = arg_sequence

\* C16 witness: the second application has given back a sequence that is
\* not its own reverse complement and is not a palindrome
C16_Witness ==
    /\ ret # None
    /\ ret[1].fn = "reverse_complement twice"
    /\ Len(arg_sequence) = MaxDnaLen
    /\ ret[1].value # reverse_complement(arg_sequence)
    /\ \E i \in 1..Len(arg_sequence) :
          arg_sequence[i] # arg_sequence[Len(arg_sequence) + 1 - i]

\* C17: hamming_distance(a, b) raises and returns no number when
\* len(a) != len(b); for equal lengths it returns the number of positions
\* at which a and b differ: 0 for identical sequences, len(a) for
\* sequences that differ everywhere.
C17_HammingDistance ==
    (ret # None /\ ret[1].fn = "hamming_distance") =>
        LET a == arg_sequence
            b == arg_seq2
            differing == {i \in 1..Len(a) : a[i] # b[i]}
        IN  IF Len(a) # Len(b)
            THEN ret[1].raised # ""
            ELSE /\ ret[1].raised = ""
                 /\ ret[1].value = Cardinality(differing)
                 /\ a = b => ret[1].value = 0
                 /\ differing = 1..Len(a) => ret[1].value = Len(a)

\* C17 witness: two sequences of the longest length that differ at some
\* positions and agree at others
C17_Witness ==
    /\ ret # None
    /\ ret[1].fn = "hamming_distance"
    /\ ret[1].raised = ""
    /\ Len(arg_sequence) = MaxDnaLen
    /\ ret[1].value > 0
    /\ ret[1].value < Len(arg_sequence)

-----------------------------------------------------------------------------
(* Properties of soft-clip extraction (SpecSoftClip) *)

\* length of the soft clip at the end of the read that is searched: the
\* first operation of a forward read, the last of a reverse read; 0 when
\* the read is unmapped, has no CIGAR or has no soft clip there
RelevantClipLength(read) ==
    LET cigar == read.cigartuples
        op == IF read.is_reverse THEN cigar[Len(cigar)] ELSE cigar[1]
    IN  IF read.is_unmapped \/ cigar = <<>> THEN 0
        ELSE IF op[1] = BAM_CSOFT_CLIP THEN op[2] ELSE 0

\* C14 (as claimed): extract_softclipped_region returns the first L
\* characters of the sequence of a mapped forward read whose first
\* operation is a soft clip of length L, the last L characters for a
\* mapped reverse read whose last operation is one, and the empty string
\* otherwise; the length of the result is always the relevant clip length.
C14_SoftClipExtraction ==
    ret # None =>
        LET read == arg_read[1]
            L == RelevantClipLength(read)
        IN  /\ ~ret[1].raised
            /\ Len(ret[1].value) = L
            /\ (L > 0 /\ read.query_sequence # None) =>
                  LET s == read.query_sequence[1]
                  IN  ret[1].value = IF read.is_reverse
                                     THEN SubSeq(s, Len(s) - L + 1, Len(s))
                                     ELSE SubSeq(s, 1, L)

-----------------------------------------------------------------------------
(* Further properties of process_bam_file (Spec) *)

\* C18: the exported match_rate is total_barcode_matches / total_reads
\* when total_reads > 0 and 0 when total_reads == 0; a run over a file
\* without records is not an error (the run fails only if reading the
\* file or opening an output file fails) and ends with every counter at
\* zero, the three dicts empty and every output file empty.
C18_MatchRateAndEmptyInput ==
    /\ exported # None =>
          LET rate == exported[1].match_rate
          IN  /\ rate.den > 0
              /\ IF stats.total_reads > 0
                 THEN rate.num * stats.total_reads
                          = stats.total_barcode_matches * rate.den
                 ELSE rate.num = 0
    /\ (bam # None /\ Records = <<>>) =>
          /\ error \in {"", "StreamError", "OSError"}
          /\ pc \in {"pass1", "pass2", "save", "done"} =>
                /\ stats = NewExtractionStatistics
                /\ \A i \in 1..Len(output_files) : output_files[i][2] = <<>>
          /\ pc = "done" =>
                /\ exported[1].total_reads = 0
                /\ exported[1].total_barcode_matches = 0
                /\ exported[1].no_barcode_count = 0

\* C18 witness: a run over a file without records has completed with its
\* output files open and empty
C18_Witness ==
    /\ bam # None
    /\ Records = <<>>
    /\ pc = "done"
    /\ output_files # <<>>
    /\ exported[1].match_rate = Quotient(0, 1)

\* C18 second witness: a completed run exported a match rate of one half
C18_WitnessHalf ==
    /\ pc = "done"
    /\ stats.total_reads = 2
    /\ exported[1].match_rate = Quotient(1, 2)

\* C19: the second pass begins only when the first has consumed every
\* record, records are written to output files only in the second pass,
\* and from the end of the first pass to the end of the run the
\* identifier-to-category map and the statistics do not change.
C19_PassesInOrder ==
    [][/\ (pc # "pass2" /\ pc' = "pass2") =>
            (pc = "pass1" /\ pos = Len(Records))
       /\ (pc # "init" /\ output_files' # output_files) => pc = "pass2"
       /\ pc \in {"pass2", "save"} =>
            /\ stats' = stats
            /\ read_classifications' = read_classifications]_vars

\* C19 witness: the second pass is under way after a first pass that
\* classified a read, with a record written and another still to route
C19_Witness ==
    /\ pc = "pass2"
    /\ pos > 0
    /\ pos < Len(Records)
    /\ read_classifications # <<>>
    /\ \E i \in 1..Len(output_files) : output_files[i][2] # <<>>

\* the searched subsequence of a record is empty: the record stores no
\* sequence or an empty one or, when only soft clips are searched, it is
\* unmapped or has no soft clip at the relevant end
EmptySubsequence(read) ==
    \/ read.query_sequence = None
    \/ read.query_sequence = Some(<<>>)
    \/ /\ config.search_softclipped
       /\ \/ read.is_unmapped
          \/ RelevantClipLength(read) = 0

\* C20 (as claimed): a record whose searched subsequence is empty is not
\* an error in pass 1 (the scan goes on with the next record) and its
\* identifier resolves to "noBarcode" for the run.
C20_EmptySubsequenceIsNoMatch ==
    /\ error # "TypeError"
    /\ Pass1Complete =>
          \A i \in 1..Len(Records) :
              EmptySubsequence(Records[i]) =>
                  RoutedCategory(Records[i]) = "noBarcode"

\* the identifiers stored in the identifier-to-category map
ClassifiedNames ==
    {read_classifications[i][1] : i \in 1..Len(read_classifications)}

\* the first-pass iteration on a record met on its own stores its name
MatchesAlone(read) ==
    ClassifyRecord(config, NewExtractionStatistics, <<>>, read)
        .read_classifications # <<>>

\* C22: at every point of pass 1 (and from then on) each read identifier
\* has contributed at most one update_barcode_match call:
\* total_barcode_matches is the number of identifiers stored in the
\* identifier-to-category map, however many records share an identifier,
\* and it never exceeds the number of records consumed.
C22_OneUpdatePerIdentifier ==
    (bam # None /\ pc # "init") =>
        /\ stats.total_barcode_matches = Cardinality(ClassifiedNames)
        /\ Cardinality(ClassifiedNames) = Len(read_classifications)
        /\ stats.total_barcode_matches
              <= (IF pc = "pass1" THEN pos ELSE Len(Records))

\* C22 witness: in pass 1 two records that share an identifier and each
\* match on their own have been consumed, and one match is counted
C22_Witness ==
    /\ pc = "pass1"
    /\ pos = 2
    /\ Records[1].query_name = Records[2].query_name
    /\ MatchesAlone(Records[1])
    /\ MatchesAlone(Records[2])
    /\ stats.total_barcode_matches = 1

\* the run is over: process_bam_file has left its try statement, and has
\* returned or raised or is about to save the statistics and return
RunLeftFiles ==
    pc \in {"save", "done", "failed"}

\* C23 (as claimed): on every exit path of process_bam_file (normal
\* completion, a stream error in pass 1 or pass 2, a failure while opening
\* an output file) every input and output file handle the function opened
\* has been closed when it returns or raises. A handle whose last
\* reference was dropped is taken as closed by its finaliser.
C23_HandlesClosedOnExit ==
    RunLeftFiles =>
        \A i \in 1..Len(handles) : handles[i].state # "open"

\* the claim of C23 on the exit paths that pass through the try statement
C23_ClosedAfterTry ==
    (RunLeftFiles /\ error # "OSError") =>
        \A i \in 1..Len(handles) : handles[i].state # "open"

\* the list holds no value twice
NoDuplicates(list) ==
    Cardinality(Range(list)) = Len(list)

\* the paths of the output files the run has opened, in the order of
\* opening
OpenedOutputPaths ==
    LET IsOutput(h) == h.path # InputPath
        hs == SelectSeq(handles, IsOutput)
    IN  [i \in 1..Len(hs) |-> hs[i].path]

\* C24 (as claimed): the category list of prepare_categories and of
\* prepare_bam_categories holds no category name twice for any barcode
\* list, two barcodes at the same 5 or 3 location included, so
\* process_bam_file opens exactly one output file per enumerated category
\* and never opens the same output path twice.
C24_CategoriesDistinct ==
    (bam # None /\ pc # "init") =>
        /\ NoDuplicates(categories)
        /\ NoDuplicates(prepare_categories(config.barcodes,
                                           config.keep_unmatched))
        /\ NoDuplicates(OpenedOutputPaths)
        /\ (config.write_output_files /\ error # "OSError") =>
              /\ Len(OpenedOutputPaths) = Len(categories)
              /\ Len(output_files) = Len(categories)

-----------------------------------------------------------------------------
(* Properties of barcode validation (SpecValidate) *)

\* C9 (as claimed): every barcode list that passes validation is not
\* empty and each of its barcodes has a non-empty sequence over
\* {A,C,G,T,N}; any other list is rejected with a configuration error.
C9_ValidatedBarcodesWellFormed ==
    (ret # None /\ ret[1].raised = "") =>
        /\ arg_barcodes # <<>>
        /\ \A i \in 1..Len(arg_barcodes) :
              /\ arg_barcodes[i].sequence # <<>>
              /\ \A j \in 1..Len(arg_barcodes[i].sequence) :
                    arg_barcodes[i].sequence[j] \in {"A", "C", "G", "T", "N"}

-----------------------------------------------------------------------------
(* Properties of the statistics (SpecStats) *)

\* C7: starting from all-zero counters, after any sequence of
\* update_barcode_match calls (with or without a category argument)
\* total_barcode_matches == sum(matches_by_barcode.values())
\*                       == sum(matches_by_category.values()).
C7_TotalsAgree ==
    /\ stats.total_barcode_matches = calls
    /\ stats.total_barcode_matches = DictSum(stats.matches_by_barcode)
    /\ stats.total_barcode_matches = DictSum(stats.matches_by_category)

\* C7 witness: several calls, some without a category, spread over more
\* than one barcode key and more than one category key
C7_Witness ==
    /\ calls = MaxCalls
    /\ Len(stats.matches_by_barcode) > 1
    /\ Len(stats.matches_by_category) > 1
    /\ DictHas(stats.matches_by_category, "barcode_orientRC")
    /\ DictHas(stats.matches_by_category, "noBarcode")

-----------------------------------------------------------------------------
(* Properties of the classifier (SpecClassify) *)

\* the pattern searched for a (barcode, orientation) pair
PatternOf(barcode, orientation) ==
    IF orientation = "FR" THEN barcode.sequence
    ELSE reverse_complement(barcode.sequence)

\* pattern matches somewhere in the upper-cased text within k edits
Matches(pattern, text, k) ==
    IF k = 0
    THEN \E p \in 0..Len(text) : Slice(Upper(text), p, Len(pattern)) = pattern
    ELSE \E p \in 0..Len(text) : PrefixWithin(pattern, From(Upper(text), p), k)

\* pair (i1, o1) comes before pair (i2, o2) in scan order
ScansBefore(i1, o1, i2, o2) ==
    \/ i1 < i2
    \/ i1 = i2 /\ o1 = "FR" /\ o2 = "RC"

\* (i, o) is the earliest pair of the barcode list whose pattern matches
EarliestMatchingPair(barcodes, sequence, k, i, o) ==
    /\ Matches(PatternOf(barcodes[i], o), sequence, k)
    /\ \A j \in 1..Len(barcodes) : \A q \in {"FR", "RC"} :
          ScansBefore(j, q, i, o) => ~Matches(PatternOf(barcodes[j], q), sequence, k)

\* barcode b matches the text in one orientation or the other
BarcodeMatches(b, sequence, k) ==
    \E o \in {"FR", "RC"} : Matches(PatternOf(b, o), sequence, k)

\* C1: classify_read_by_first_match returns the match of the earliest
\* (barcode, orientation) pair in scan order whose pattern matches the
\* upper-cased sequence, returns (None, "noBarcode") only when no pair
\* matches, and with two barcodes that both match, each order of the list
\* yields the barcode listed first.
C1_FirstMatchWins ==
    ret # None =>
        LET r == ret[1]
            n == Len(arg_barcodes)
            anyPair == \E i \in 1..n : BarcodeMatches(arg_barcodes[i], arg_sequence,
                                                       arg_max_mismatches)
        IN  /\ (r.match = None) <=> ~anyPair
            /\ r.match = None => r.category = "noBarcode"
            /\ r.match # None =>
                  \E i \in 1..n : \E o \in {"FR", "RC"} :
                      /\ EarliestMatchingPair(arg_barcodes, arg_sequence,
                                              arg_max_mismatches, i, o)
                      /\ r.match[1].barcode = arg_barcodes[i]
                      /\ r.match[1].orientation = o
            /\ (/\ n = 2
                /\ BarcodeMatches(arg_barcodes[1], arg_sequence, arg_max_mismatches)
                /\ BarcodeMatches(arg_barcodes[2], arg_sequence, arg_max_mismatches))
               => LET swapped == classify_read_by_first_match(
                                     arg_sequence,
                                     <<arg_barcodes[2], arg_barcodes[1]>>,
                                     arg_max_mismatches)
                  IN  /\ r.match[1].barcode = arg_barcodes[1]
                      /\ swapped.match # None
                      /\ swapped.match[1].barcode = arg_barcodes[2]

\* C1 witness: two different barcodes both match, the first only as a
\* reverse complement and the second forward, and the first one is returned
C1_Witness ==
    /\ ret # None
    /\ arg_max_mismatches = 0
    /\ Len(arg_barcodes) = 2
    /\ arg_barcodes[1].sequence # arg_barcodes[2].sequence
    /\ ~Matches(arg_barcodes[1].sequence, arg_sequence, arg_max_mismatches)
    /\ Matches(reverse_complement(arg_barcodes[1].sequence), arg_sequence,
               arg_max_mismatches)
    /\ Matches(arg_barcodes[2].sequence, arg_sequence, arg_max_mismatches)
    /\ ret[1].match # None
    /\ ret[1].match[1].barcode = arg_barcodes[1]
    /\ ret[1].match[1].orientation = "RC"

\* the derivation table of the category, written out
TableCategory(single_mode, location, orientation) ==
    IF single_mode
    THEN IF orientation = "FR" THEN "barcode_orientFR" ELSE "barcode_orientRC"
    ELSE CASE location = "5" /\ orientation = "FR" -> "barcode5_orientFR"
           [] location = "5" /\ orientation = "RC" -> "barcode5_orientRC"
           [] location = "3" /\ orientation = "FR" -> "barcode3_orientFR"
           [] location = "3" /\ orientation = "RC" -> "barcode3_orientRC"

\* C3: the category returned by the classifier follows the derivation
\* table: single-barcode mode iff one barcode is configured or all are
\* UNKNOWN, then barcode_orientFR / barcode_orientRC by orientation; in
\* located mode a match of a barcode at 5 or 3 gives
\* barcode{5|3}_orient{FR|RC}; no match gives noBarcode.
C3_CategoryTable ==
    ret # None =>
        LET r == ret[1]
            single == \/ Len(arg_barcodes) = 1
                      \/ \A i \in 1..Len(arg_barcodes) :
                            arg_barcodes[i].location = "UNK"
        IN  /\ r.match = None => r.category = "noBarcode"
            /\ (r.match # None /\ (single \/ r.match[1].barcode.location \in {"5", "3"}))
               => /\ r.category = TableCategory(single, r.match[1].barcode.location,
                                                r.match[1].orientation)
                  /\ get_output_category(r.match, single) = r.category
            /\ get_output_category(None, single) = "noBarcode"

\* C3 witness: located mode, a barcode at the 3' end matched as a reverse
\* complement
C3_Witness ==
    /\ ret # None
    /\ Len(arg_barcodes) = 2
    /\ \E i \in 1..2 : arg_barcodes[i].location # "UNK"
    /\ ret[1].match # None
    /\ ret[1].match[1].barcode.location = "3"
    /\ ret[1].match[1].orientation = "RC"
    /\ ret[1].category = "barcode3_orientRC"

\* C21: every category classify_read_by_first_match returns for a barcode
\* list is a member of prepare_categories(barcodes, keep_unmatched=True),
\* so no classified read falls outside the enumerated output set, also for
\* a located-mode list that mixes barcodes at 5 or 3 with UNKNOWN ones.
C21_ClassifiedCategoryEnumerated ==
    ret # None =>
        ret[1].category \in Range(prepare_categories(arg_barcodes, TRUE))

=============================================================================
